---------------------------- MODULE Spec2Model ----------------------------
(***************************************************************************)
(* Heading-aware chunking and heading association of 1B_Doc-connect:       *)
(* heading_extractor.py, semantic_chunker.py and the document loop of      *)
(* main.py.                                                                *)
(*                                                                         *)
(* A text is a sequence of one-character strings; Python's None is the     *)
(* value None below, which is no text.                                     *)
(***************************************************************************)
EXTENDS Integers, Sequences, FiniteSets, TLC

VARIABLES
    pc,                  \* position of the running function
    \* ---- create_simple_chunks (semantic_chunker.py)
    paragraphs,          \* argument: the paragraph sequence
    min_chunk_size,      \* argument
    max_chunk_size,      \* argument
    para_idx,            \* position of the for loop (1-based, next paragraph)
    chunks,              \* local: the chunks sealed so far
    current_chunk,       \* local: the accumulator text
    current_page,        \* local
    current_y_start,     \* local
    current_paragraphs,  \* local
    current_src,         \* history: for each character of current_chunk, the
                         \* index of the paragraph it came from (0: separator)
    chunk_first,         \* history: for each sealed chunk, the index of the
                         \* first paragraph that contributed text to it
    \* ---- get_headings_by_page (heading_extractor.py)
    lines,               \* result of extract_lines_with_fonts
    title,               \* result: the title, or None
    outline,             \* the outline assign_heading_levels returned
    headings_by_page,    \* result: page -> heading entries
    \* ---- find_heading_for_chunk (both modules)
    chunk,               \* argument: the chunk {text, page, y_start}
    sem_heading,         \* result of semantic_chunker.find_heading_for_chunk
    he_heading,          \* result of heading_extractor.find_heading_for_chunk
    \* ---- extract_chunks_with_headings (both modules)
    doc,                 \* the opened PDF: its pages, each a sequence of lines
    sections,            \* result of heading_extractor.extract_chunks_with_headings
    sem_sections,        \* result of semantic_chunker.extract_chunks_with_headings
    sem_first,           \* history: for each section of sem_sections, the
                         \* first paragraph whose text it holds
    \* ---- main
    docs_dir,            \* the files of --docs_dir in os.listdir order
    top_k,               \* --top_k
    input_documents,     \* the names of the PDF files
    doc_idx,             \* position of the chunking loop in input_documents
    all_sections,        \* sections of the documents chunked so far
    stored,              \* the points of the collection doc_sections
    hits,                \* result of search
    final_hits,          \* the hits kept for the output
    \* ---- clean_heading_text
    raw_text,            \* the text of a line as the PDF holds it
    cleaned,             \* clean_heading_text(raw_text)
    recleaned            \* clean_heading_text(cleaned)

chunkVars == <<paragraphs, min_chunk_size, max_chunk_size, para_idx, chunks,
               current_chunk, current_page, current_y_start,
               current_paragraphs, current_src, chunk_first>>

headVars == <<lines, title, outline, headings_by_page>>

assocVars == <<chunk, sem_heading, he_heading>>

pipeVars == <<doc, sections, sem_sections, sem_first>>

mainVars == <<docs_dir, top_k, input_documents, doc_idx, all_sections, stored,
              hits, final_hits>>

cleanVars == <<raw_text, cleaned, recleaned>>

vars == <<pc, chunkVars, headVars, assocVars, pipeVars, mainVars, cleanVars>>

(***************************************************************************)
(* Characters and Python string primitives                                 *)
(***************************************************************************)
None == <<"<None>">>

Whitespace == {" ", "\t", "\n"}
Terminators == {".", "!", "?"}
Digits == {"0", "1", "2", "3", "4", "5", "6", "7", "8", "9"}

UpperLetters == <<"A","B","C","D","E","F","G","H","I","J","K","L","M",
                  "N","O","P","Q","R","S","T","U","V","W","X","Y","Z">>
LowerLetters == <<"a","b","c","d","e","f","g","h","i","j","k","l","m",
                  "n","o","p","q","r","s","t","u","v","w","x","y","z">>

SetMin(S) == CHOOSE x \in S : \A y \in S : x <= y
SetMax(S) == CHOOSE x \in S : \A y \in S : x >= y

RECURSIVE SortedSeq(_)
SortedSeq(S) == IF S = {} THEN <<>>
                ELSE <<SetMin(S)>> \o SortedSeq(S \ {SetMin(S)})

Last(s) == s[Len(s)]
AllButLast(s) == SubSeq(s, 1, Len(s) - 1)
Repeat(x, n) == [k \in 1..n |-> x]

\* str.strip()
Strip(s) ==
    LET keep == {i \in 1..Len(s) : s[i] \notin Whitespace}
    IN  IF keep = {} THEN <<>> ELSE SubSeq(s, SetMin(keep), SetMax(keep))

\* str.lower() on the ASCII letters
LowerChar(c) ==
    IF \E k \in 1..Len(UpperLetters) : UpperLetters[k] = c
    THEN LowerLetters[CHOOSE k \in 1..Len(UpperLetters) : UpperLetters[k] = c]
    ELSE c
Lower(s) == [i \in 1..Len(s) |-> LowerChar(s[i])]

\* str.replace(c, '')
RemoveChar(s, c) == SelectSeq(s, LAMBDA x : x # c)

\* str.isdigit(): non-empty and every character a digit
IsDigit(s) == Len(s) > 0 /\ \A i \in 1..Len(s) : s[i] \in Digits

\* sep.join(parts)
RECURSIVE Join(_, _)
Join(parts, sep) ==
    IF Len(parts) = 0 THEN <<>>
    ELSE IF Len(parts) = 1 THEN parts[1]
    ELSE parts[1] \o sep \o Join(Tail(parts), sep)

\* needle in hay (substring test); the empty needle is in every text
Contains(hay, needle) ==
    \E i \in 0..(Len(hay) - Len(needle)) :
        \A k \in 1..Len(needle) : hay[i + k] = needle[k]

\* str.split(): the maximal runs of non-whitespace characters, in order
SplitWords(s) ==
    LET starts == {a \in 1..Len(s) : s[a] \notin Whitespace
                       /\ (a = 1 \/ s[a - 1] \in Whitespace)}
        WordEnd(a) == SetMax({b \in a..Len(s) :
                                 \A k \in a..b : s[k] \notin Whitespace})
        order == SortedSeq(starts)
    IN  [k \in 1..Len(order) |-> SubSeq(s, order[k], WordEnd(order[k]))]

\* str.split(c)[0]: the part before the first c
BeforeFirst(s, c) ==
    LET at == {i \in 1..Len(s) : s[i] = c}
    IN  IF at = {} THEN s ELSE SubSeq(s, 1, SetMin(at) - 1)

(***************************************************************************)
(* The opened PDF (fitz): a document is the sequence of its pages, a page  *)
(* the sequence of its text lines, a line a record of its joined span      *)
(* texts (text), its largest span size (font_size), whether a span font is *)
(* bold (is_bold) and its top y-coordinate (y_coord).                      *)
(***************************************************************************)
\* The lines of a page that are not blank, their text stripped
PageLines(page) ==
    LET kept == SelectSeq(page, LAMBDA line : Strip(line.text) # <<>>)
    IN  [k \in 1..Len(kept) |-> [kept[k] EXCEPT !.text = Strip(@)]]

\* extract_lines_with_fonts: the lines of the pages from page p on; the
\* page of a line is page_num - 1 with page_num counted from 1
RECURSIVE LinesFrom(_, _)
LinesFrom(d, p) ==
    IF p > Len(d) THEN <<>>
    ELSE LET ls == PageLines(d[p])
         IN  [k \in 1..Len(ls) |->
                 [text |-> ls[k].text, page |-> p - 1,
                  font_size |-> ls[k].font_size, is_bold |-> ls[k].is_bold,
                  y_coord |-> ls[k].y_coord]] \o LinesFrom(d, p + 1)

extract_lines_with_fonts(d) == LinesFrom(d, 1)

\* page.get_text(): the text of the lines, each ended by a newline
RECURSIVE PageText(_)
PageText(page) ==
    IF page = <<>> THEN <<>>
    ELSE Head(page).text \o <<"\n">> \o PageText(Tail(page))

\* str.split(c): the pieces between the occurrences of c
SplitChar(s, c) ==
    LET at == SortedSeq({i \in 1..Len(s) : s[i] = c})
        From(k) == IF k = 1 THEN 1 ELSE at[k - 1] + 1
        To(k) == IF k = Len(at) + 1 THEN Len(s) ELSE at[k] - 1
    IN  [k \in 1..(Len(at) + 1) |-> SubSeq(s, From(k), To(k))]

(***************************************************************************)
(* heading_extractor.py: the heading classifier                            *)
(***************************************************************************)
HEADING_LEVELS == <<"Title", "H1", "H2", "H3">>

\* clean_heading_text without the strip of the part before the colon
clean_heading_text_NoTrim(text) ==
    LET t == Strip(text)
    IN  IF \E i \in 1..Len(t) : t[i] = ":"
        THEN BeforeFirst(t, ":")
        ELSE t

clean_heading_text(text) ==
    LET t == Strip(text)
    IN  IF \E i \in 1..Len(t) : t[i] = ":"
        THEN Strip(BeforeFirst(t, ":"))
        ELSE t

skip_patterns ==
    { <<"s",".","n","o">>, <<"n","a","m","e">>, <<"a","g","e">>,
      <<"d","a","t","e">>, <<"r","s",".">>,
      <<"s","i","g","n","a","t","u","r","e">> }

\* Mutant of SkipCandidate: the reserved labels are compared without
\* lowering the text.
SkipCandidate_CaseSensitive(text) ==
    \/ Len(text) <= 3
    \/ IsDigit(RemoveChar(text, "."))
    \/ text \in skip_patterns

\* The two "continue" tests on a cleaned candidate text
SkipCandidate(text) ==
    \/ Len(text) <= 3
    \/ IsDigit(RemoveChar(text, "."))
    \/ Lower(text) \in skip_patterns

\* Counter(line['font_size'] for line in lines)
FontSizes(ls) == {ls[k].font_size : k \in 1..Len(ls)}
FontSizeCount(ls, size) == Cardinality({k \in 1..Len(ls) : ls[k].font_size = size})

\* font_size_counts.most_common(1)[0]: the highest count, and among equal
\* counts the size counted first
BodyFontSize(ls) ==
    LET best == SetMax({FontSizeCount(ls, z) : z \in FontSizes(ls)})
        k == SetMin({j \in 1..Len(ls) : FontSizeCount(ls, ls[j].font_size) = best})
    IN  ls[k].font_size

\* count / total_lines < 0.2
RareFontSizes(ls) ==
    {z \in FontSizes(ls) : 5 * FontSizeCount(ls, z) < Len(ls)}

\* sorted(..., reverse=True)
SortedDescending(S) ==
    LET asc == SortedSeq(S) IN [k \in 1..Len(asc) |-> asc[Len(asc) + 1 - k]]

\* size_to_level: the first len(HEADING_LEVELS) rare sizes, largest first
SizeToLevel(ls) ==
    LET rare == SortedDescending(RareFontSizes(ls))
        n == IF Len(rare) < Len(HEADING_LEVELS) THEN Len(rare)
             ELSE Len(HEADING_LEVELS)
    IN  [z \in {rare[i] : i \in 1..n} |->
            HEADING_LEVELS[CHOOSE i \in 1..n : rare[i] = z]]

\* An outline entry made from a line
Entry(line, level) ==
    [level |-> level, text |-> clean_heading_text(line.text),
     page |-> line.page, y_coord |-> line.y_coord]

\* Mutant of BoldOutline: the loop runs over all the lines instead of
\* bold_lines.
BoldOutline_AllLines(ls) ==
    LET kept == SelectSeq(ls, LAMBDA line :
                     ~SkipCandidate(clean_heading_text(line.text)))
    IN  [k \in 1..Len(kept) |-> Entry(kept[k], "H1")]

\* The bold branch: every bold line that passes the tests is an H1 entry.
BoldOutline(ls) ==
    LET kept == SelectSeq(ls, LAMBDA line :
                     line.is_bold
                         /\ ~SkipCandidate(clean_heading_text(line.text)))
    IN  [k \in 1..Len(kept) |-> Entry(kept[k], "H1")]

\* The font-size branch, given the body size and size_to_level: the lines
\* that get a level and pass the tests.
FontCandidate(line, body, size_to_level) ==
    /\ line.font_size # body
    /\ line.font_size \in DOMAIN size_to_level
    /\ ~SkipCandidate(clean_heading_text(line.text))

TitleLines(ls, body, size_to_level) ==
    LET kept == SelectSeq(ls, LAMBDA line :
                     FontCandidate(line, body, size_to_level)
                         /\ size_to_level[line.font_size] = "Title")
    IN  [k \in 1..Len(kept) |-> clean_heading_text(kept[k].text)]

FontOutline(ls, body, size_to_level) ==
    LET kept == SelectSeq(ls, LAMBDA line :
                     FontCandidate(line, body, size_to_level)
                         /\ size_to_level[line.font_size] # "Title")
    IN  [k \in 1..Len(kept) |->
            Entry(kept[k], size_to_level[kept[k].font_size])]

assign_heading_levels(ls) ==
    IF \E k \in 1..Len(ls) : ls[k].is_bold
    THEN [title |-> None, outline |-> BoldOutline(ls)]
    ELSE IF Len(ls) > 0
    THEN LET body == BodyFontSize(ls)
             title_lines == TitleLines(ls, body, SizeToLevel(ls))
         IN  [title |-> IF Len(title_lines) > 0
                        THEN Join(title_lines, <<" ">>) ELSE None,
              outline |-> FontOutline(ls, body, SizeToLevel(ls))]
    ELSE [title |-> None, outline |-> <<>>]

\* The grouping of get_headings_by_page: a defaultdict, whose keys are the
\* pages that got an entry.
GroupByPage(entries) ==
    [p \in {entries[k].page : k \in 1..Len(entries)} |->
        LET kept == SelectSeq(entries, LAMBDA e : e.page = p)
        IN  [k \in 1..Len(kept) |->
                [text |-> kept[k].text, level |-> kept[k].level,
                 y_coord |-> kept[k].y_coord]]]

get_headings_by_page(ls) ==
    LET r == assign_heading_levels(ls)
    IN  [title |-> r.title, headings_by_page |-> GroupByPage(r.outline)]

(***************************************************************************)
(* heading_extractor.py: find_heading_for_chunk (word overlap, else the    *)
(* first heading of the page)                                              *)
(***************************************************************************)
WordSet(text) ==
    LET w == SplitWords(Lower(text)) IN {w[k] : k \in 1..Len(w)}

\* len(heading_words.intersection(chunk_words)) > 0
WordOverlap(heading, chunk_text) ==
    WordSet(heading.text) \cap WordSet(chunk_text) # {}

\* Mutant of HE_find_heading_for_chunk: no single-heading shortcut, and ""
\* instead of the first heading when no heading shares a word.
HE_find_heading_for_chunk_Unresolved(chunk_page, chunk_text, by_page) ==
    IF chunk_page \notin DOMAIN by_page THEN <<>>
    ELSE LET page_headings == by_page[chunk_page]
             matching == {k \in 1..Len(page_headings) :
                             WordOverlap(page_headings[k], chunk_text)}
         IN  IF matching # {} THEN page_headings[SetMin(matching)].text ELSE <<>>

HE_find_heading_for_chunk(chunk_page, chunk_text, by_page) ==
    IF chunk_page \notin DOMAIN by_page THEN <<>>
    ELSE LET page_headings == by_page[chunk_page]
             matching == {k \in 1..Len(page_headings) :
                             WordOverlap(page_headings[k], chunk_text)}
         IN  IF Len(page_headings) = 0 THEN <<>>
             ELSE IF Len(page_headings) = 1 THEN page_headings[1].text
             ELSE IF matching # {} THEN page_headings[SetMin(matching)].text
             ELSE page_headings[1].text

(***************************************************************************)
(* heading_extractor.py: extract_chunks_with_headings (the simple          *)
(* strategy: the paragraphs of a page merged up to chunk_size)             *)
(***************************************************************************)
\* paras = [p.strip() for p in text.split('\n') if p.strip()]
PageParas(page) ==
    LET pieces == SplitChar(PageText(page), "\n")
        kept == SelectSeq(pieces, LAMBDA x : Strip(x) # <<>>)
    IN  [k \in 1..Len(kept) |-> Strip(kept[k])]

\* PageChunks with the merge test "<= chunk_size" in place of "< chunk_size"
RECURSIVE PageChunks_AtMost(_, _, _, _, _)
PageChunks_AtMost(paras, i, acc, out, chunk_size) ==
    IF i > Len(paras)
    THEN IF acc # <<>> THEN Append(out, acc) ELSE out
    ELSE IF Len(acc) + Len(paras[i]) <= chunk_size
    THEN PageChunks_AtMost(paras, i + 1,
                    acc \o (IF acc # <<>> THEN <<" ">> ELSE <<>>) \o paras[i],
                    out, chunk_size)
    ELSE PageChunks_AtMost(paras, i + 1, paras[i],
                    IF acc # <<>> THEN Append(out, acc) ELSE out, chunk_size)

\* The inner loop over the paragraphs of a page from paragraph i on: acc is
\* the accumulator (chunk), out the chunk texts emitted so far; at the end
\* the accumulator is emitted if it is not empty.
RECURSIVE PageChunks(_, _, _, _, _)
PageChunks(paras, i, acc, out, chunk_size) ==
    IF i > Len(paras)
    THEN IF acc # <<>> THEN Append(out, acc) ELSE out
    ELSE IF Len(acc) + Len(paras[i]) < chunk_size
    THEN PageChunks(paras, i + 1,
                    acc \o (IF acc # <<>> THEN <<" ">> ELSE <<>>) \o paras[i],
                    out, chunk_size)
    ELSE PageChunks(paras, i + 1, paras[i],
                    IF acc # <<>> THEN Append(out, acc) ELSE out, chunk_size)

\* The sections of the pages from page index page_num (0-based) on
RECURSIVE SectionsFrom(_, _, _, _, _)
SectionsFrom(d, page_num, by_page, file, chunk_size) ==
    IF page_num >= Len(d) THEN <<>>
    ELSE LET cs == PageChunks(PageParas(d[page_num + 1]), 1, <<>>, <<>>,
                              chunk_size)
         IN  [k \in 1..Len(cs) |->
                 [text |-> cs[k], page |-> page_num + 1, file |-> file,
                  heading |-> HE_find_heading_for_chunk(page_num, cs[k],
                                                        by_page)]]
             \o SectionsFrom(d, page_num + 1, by_page, file, chunk_size)

HE_extract_chunks_with_headings(d, file, chunk_size) ==
    SectionsFrom(d, 0,
                 get_headings_by_page(extract_lines_with_fonts(d)).headings_by_page,
                 file, chunk_size)

(***************************************************************************)
(* semantic_chunker.py: sentence tokenization                              *)
(***************************************************************************)
\* The positions matched by [.!?]+(?=\s|\n|$): the maximal runs of
\* terminators that are followed by whitespace or by the end of the text.
SplitPositions(s) ==
    LET RunEnd(i) == SetMax({j \in i..Len(s) :
                                \A k \in i..j : s[k] \in Terminators})
    IN  {i \in 1..Len(s) :
            /\ s[i] \in Terminators
            /\ (RunEnd(i) = Len(s) \/ s[RunEnd(i) + 1] \in Whitespace)}

\* The <<first, last>> character positions of the sentences of s: the pieces
\* between the matches, stripped, the empty ones dropped.
SentenceRanges(s) ==
    LET sp == SplitPositions(s)
        starts == {a \in 1..Len(s) : a \notin sp /\ (a = 1 \/ (a - 1) \in sp)}
        PieceEnd(a) == SetMax({b \in a..Len(s) : \A k \in a..b : k \notin sp})
        NonWs(a) == {k \in a..PieceEnd(a) : s[k] \notin Whitespace}
        order == SortedSeq({a \in starts : NonWs(a) # {}})
    IN  [k \in 1..Len(order) |->
            <<SetMin(NonWs(order[k])), SetMax(NonWs(order[k]))>>]

simple_sent_tokenize(text) ==
    LET r == SentenceRanges(text)
    IN  [k \in 1..Len(r) |-> SubSeq(text, r[k][1], r[k][2])]

segment_sentences(text) == simple_sent_tokenize(text)

(***************************************************************************)
(* semantic_chunker.py: extract_paragraphs_with_positioning                *)
(***************************************************************************)
LastChars(s, n) == IF Len(s) <= n THEN s ELSE SubSeq(s, Len(s) - n + 1, Len(s))
FirstChars(s, n) == IF Len(s) <= n THEN s ELSE SubSeq(s, 1, n)

\* re.search(r'[.!?]\s+[A-Z]', w)
EndThenCapital(w) ==
    \E i \in 1..Len(w) : \E j \in (i + 2)..Len(w) :
        /\ w[i] \in Terminators
        /\ \A k \in (i + 1)..(j - 1) : w[k] \in Whitespace
        /\ \E u \in 1..Len(UpperLetters) : UpperLetters[u] = w[j]

is_paragraph_break(text_before, text_after) ==
    IF text_before = <<>> \/ text_after = <<>> THEN FALSE
    ELSE \/ Contains(LastChars(text_before, 20), <<"\n", "\n">>)
         \/ Contains(FirstChars(text_after, 20), <<"\n", "\n">>)
         \/ EndThenCapital(LastChars(text_before, 10)
                               \o FirstChars(text_after, 10))

\* The paragraph record appended to page_paragraphs
SealedParagraph(st) ==
    [text |-> Strip(st.current_paragraph),
     y_start |-> st.current_y_start,
     y_end |-> IF st.current_y_end # 0 THEN st.current_y_end
               ELSE st.current_y_start]

\* The loop over the lines of a page from line i on, then "Add the last
\* paragraph"
RECURSIVE PageParagraphs(_, _, _)
PageParagraphs(page, i, st) ==
    IF i > Len(page)
    THEN IF st.current_paragraph # <<>>
         THEN Append(st.page_paragraphs, SealedParagraph(st))
         ELSE st.page_paragraphs
    ELSE LET line_text == Strip(page[i].text)
             y_coord == page[i].y_coord
         IN  IF line_text = <<>> THEN PageParagraphs(page, i + 1, st)
             ELSE IF st.current_paragraph = <<>>
                     \/ is_paragraph_break(st.current_paragraph, line_text)
             THEN PageParagraphs(page, i + 1,
                      [page_paragraphs |->
                           IF st.current_paragraph # <<>>
                           THEN Append(st.page_paragraphs, SealedParagraph(st))
                           ELSE st.page_paragraphs,
                       current_paragraph |-> line_text,
                       current_y_start |-> y_coord,
                       current_y_end |-> y_coord])
             ELSE PageParagraphs(page, i + 1,
                      [st EXCEPT !.current_paragraph = @ \o <<" ">> \o line_text,
                                 !.current_y_end = y_coord])

\* The paragraphs of the pages from page index page_num (0-based) on, each
\* with page = page_num + 1
RECURSIVE ParagraphsFrom(_, _)
ParagraphsFrom(d, page_num) ==
    IF page_num >= Len(d) THEN <<>>
    ELSE LET ps == PageParagraphs(d[page_num + 1], 1,
                       [page_paragraphs |-> <<>>, current_paragraph |-> <<>>,
                        current_y_start |-> None, current_y_end |-> None])
         IN  [k \in 1..Len(ps) |->
                 [text |-> ps[k].text, y_start |-> ps[k].y_start,
                  y_end |-> ps[k].y_end, page |-> page_num + 1]]
             \o ParagraphsFrom(d, page_num + 1)

extract_paragraphs_with_positioning(d) == ParagraphsFrom(d, 0)

(***************************************************************************)
(* semantic_chunker.py: create_simple_chunks                               *)
(***************************************************************************)
\* chunk_y_start = current_paragraphs[0]['y_start'] if current_paragraphs
\*                 else current_y_start
ChunkYStart(cur_paragraphs, cur_y_start) ==
    IF Len(cur_paragraphs) > 0 THEN cur_paragraphs[1].y_start ELSE cur_y_start

\* Mutant of ChunkStep: the sentence-boundary cut is sealed without the
\* test len(chunk_text) >= min_chunk_size.
ChunkStep_NoMinTest(st, para, minSize, maxSize) ==
    LET sentences == segment_sentences(st.current_chunk)
        chunk_text == Join(AllButLast(sentences), <<".", " ">>) \o <<".">>
        y == ChunkYStart(st.current_paragraphs, st.current_y_start)
        Sealed(text) == Append(st.chunks,
                               [text |-> text, page |-> st.current_page,
                                y_start |-> y])
    IN  IF st.current_chunk # <<>>
           /\ Len(st.current_chunk) + Len(para.text) > maxSize
        THEN IF Len(sentences) > 1
             THEN [st EXCEPT !.chunks = Sealed(chunk_text),
                             !.current_chunk = Last(sentences),
                             !.current_paragraphs =
                                 <<[y_start |-> para.y_start]>>]
             ELSE [st EXCEPT !.chunks = Sealed(st.current_chunk),
                             !.current_chunk = para.text,
                             !.current_paragraphs = <<para>>]
        ELSE IF st.current_chunk # <<>>
             THEN [st EXCEPT !.current_chunk = @ \o <<" ">> \o para.text,
                             !.current_paragraphs = Append(@, para)]
             ELSE [st EXCEPT !.current_chunk = para.text,
                             !.current_page = para.page,
                             !.current_y_start = para.y_start,
                             !.current_paragraphs = <<para>>]

\* One iteration of the for loop over the paragraphs: st holds the locals.
ChunkStep(st, para, minSize, maxSize) ==
    LET para_text == para.text
        para_size == Len(para_text)
        sentences == segment_sentences(st.current_chunk)
        chunk_text == Join(AllButLast(sentences), <<".", " ">>) \o <<".">>
        y == ChunkYStart(st.current_paragraphs, st.current_y_start)
        Sealed(text) == Append(st.chunks,
                               [text |-> text, page |-> st.current_page,
                                y_start |-> y])
        SealWhole == [st EXCEPT !.chunks = Sealed(st.current_chunk),
                                !.current_chunk = para_text,
                                !.current_paragraphs = <<para>>]
    IN  IF st.current_chunk # <<>>
           /\ Len(st.current_chunk) + para_size > maxSize
        THEN IF Len(sentences) > 1
             THEN IF Len(chunk_text) >= minSize
                  THEN [st EXCEPT !.chunks = Sealed(chunk_text),
                                  !.current_chunk = Last(sentences),
                                  !.current_paragraphs =
                                      <<[y_start |-> para.y_start]>>]
                  ELSE SealWhole
             ELSE SealWhole
        ELSE IF st.current_chunk # <<>>
             THEN [st EXCEPT !.current_chunk = @ \o <<" ">> \o para_text,
                             !.current_paragraphs = Append(@, para)]
             ELSE [st EXCEPT !.current_chunk = para_text,
                             !.current_page = para.page,
                             !.current_y_start = para.y_start,
                             !.current_paragraphs = <<para>>]

\* History of one iteration: where the characters of the accumulator come
\* from (src), and the first contributing paragraph of each sealed chunk.
\* i is the index of para in the paragraph sequence.
ChunkHistoryStep(st, h, para, i, minSize, maxSize) ==
    LET para_size == Len(para.text)
        ranges == SentenceRanges(st.current_chunk)
        chunk_text == Join(AllButLast(segment_sentences(st.current_chunk)),
                           <<".", " ">>) \o <<".">>
        SealWhole == [src |-> Repeat(i, para_size),
                      first |-> Append(h.first, h.src[1])]
    IN  IF st.current_chunk # <<>>
           /\ Len(st.current_chunk) + para_size > maxSize
        THEN IF Len(ranges) > 1
             THEN IF Len(chunk_text) >= minSize
                  THEN [src |-> SubSeq(h.src, Last(ranges)[1], Last(ranges)[2]),
                        first |-> Append(h.first, h.src[ranges[1][1]])]
                  ELSE SealWhole
             ELSE SealWhole
        ELSE IF st.current_chunk # <<>>
             THEN [src |-> h.src \o <<0>> \o Repeat(i, para_size),
                   first |-> h.first]
             ELSE [src |-> Repeat(i, para_size), first |-> h.first]

ChunkHistoryFinish(st, h) ==
    IF st.current_chunk # <<>> THEN Append(h.first, h.src[1]) ELSE h.first

\* ChunkFinish without the test "if current_chunk"
ChunkFinish_Unconditional(st) ==
    Append(st.chunks,
           [text |-> st.current_chunk, page |-> st.current_page,
            y_start |-> ChunkYStart(st.current_paragraphs,
                                    st.current_y_start)])

\* "Add the last chunk"
ChunkFinish(st) ==
    IF st.current_chunk # <<>>
    THEN Append(st.chunks,
                [text |-> st.current_chunk, page |-> st.current_page,
                 y_start |-> ChunkYStart(st.current_paragraphs,
                                         st.current_y_start)])
    ELSE st.chunks

\* The locals at function entry
ChunkStart ==
    [chunks |-> <<>>, current_chunk |-> <<>>, current_page |-> None,
     current_y_start |-> None, current_paragraphs |-> <<>>]

\* The whole function: the loop from paragraph i on, then the last chunk.
\* Yields the chunks and, beside them, their first contributing paragraphs.
RECURSIVE ChunkRun(_, _, _, _, _, _)
ChunkRun(st, h, paras, i, minSize, maxSize) ==
    IF i > Len(paras)
    THEN [chunks |-> ChunkFinish(st), first |-> ChunkHistoryFinish(st, h)]
    ELSE ChunkRun(ChunkStep(st, paras[i], minSize, maxSize),
                  ChunkHistoryStep(st, h, paras[i], i, minSize, maxSize),
                  paras, i + 1, minSize, maxSize)

create_simple_chunks(paras, minSize, maxSize) ==
    ChunkRun(ChunkStart, [src |-> <<>>, first |-> <<>>], paras, 1,
             minSize, maxSize).chunks

(***************************************************************************)
(* semantic_chunker.py: find_heading_for_chunk (content, then position)    *)
(***************************************************************************)
\* heading_text in chunk_text
\*   or any(word in chunk_text for word in heading_text.split())
ContentOverlap(heading, chunk_text) ==
    LET heading_text == Lower(heading.text)
        words == SplitWords(heading_text)
    IN  \/ Contains(chunk_text, heading_text)
        \/ \E k \in 1..Len(words) : Contains(chunk_text, words[k])

\* max(s, key=y_coord) and min(s, key=y_coord): the first such element
MaxByY(s) ==
    s[SetMin({k \in 1..Len(s) : \A j \in 1..Len(s) : s[j].y_coord <= s[k].y_coord})]
MinByY(s) ==
    s[SetMin({k \in 1..Len(s) : \A j \in 1..Len(s) : s[j].y_coord >= s[k].y_coord})]

\* Mutant of ClosestHeading: the first heading above the chunk instead of
\* the one with the highest y-coordinate.
ClosestHeading_FirstAbove(page_headings, chunk_y) ==
    LET headings_above == SelectSeq(page_headings,
                                    LAMBDA h : h.y_coord <= chunk_y)
        headings_below == SelectSeq(page_headings,
                                    LAMBDA h : h.y_coord > chunk_y)
    IN  IF Len(headings_above) > 0 THEN headings_above[1].text
        ELSE IF Len(headings_below) > 0 THEN MinByY(headings_below).text
        ELSE IF Len(page_headings) > 0 THEN page_headings[1].text ELSE <<>>

\* The positioning-based approach
ClosestHeading(page_headings, chunk_y) ==
    LET headings_above == SelectSeq(page_headings,
                                    LAMBDA h : h.y_coord <= chunk_y)
        headings_below == SelectSeq(page_headings,
                                    LAMBDA h : h.y_coord > chunk_y)
    IN  IF Len(headings_above) > 0 THEN MaxByY(headings_above).text
        ELSE IF Len(headings_below) > 0 THEN MinByY(headings_below).text
        ELSE IF Len(page_headings) > 0 THEN page_headings[1].text ELSE <<>>

SC_find_heading_for_chunk(c, by_page) ==
    LET page_num == c.page
        chunk_y == c.y_start
        chunk_text == Lower(c.text)
    IN  IF page_num \notin DOMAIN by_page THEN <<>>
        ELSE LET page_headings == by_page[page_num]
                 matching == {k \in 1..Len(page_headings) :
                                 ContentOverlap(page_headings[k], chunk_text)}
             IN  IF Len(page_headings) = 0 THEN <<>>
                 ELSE IF Len(page_headings) = 1 THEN page_headings[1].text
                 ELSE IF matching # {} THEN page_headings[SetMin(matching)].text
                 ELSE ClosestHeading(page_headings, chunk_y)

(***************************************************************************)
(* semantic_chunker.py: extract_chunks_with_headings (the sentence-aware   *)
(* strategy)                                                               *)
(***************************************************************************)
SC_extract_chunks_with_headings(d, file, minSize, chunk_size) ==
    LET paras == extract_paragraphs_with_positioning(d)
        cs == create_simple_chunks(paras, minSize, chunk_size)
        by_page == get_headings_by_page(extract_lines_with_fonts(d)).headings_by_page
    IN  [k \in 1..Len(cs) |->
            [text |-> cs[k].text, page |-> cs[k].page, file |-> file,
             heading |-> SC_find_heading_for_chunk(cs[k], by_page)]]

(***************************************************************************)
(* Specification SpecChunk: create_simple_chunks, one loop iteration per   *)
(* step, on every paragraph sequence within the bounds.                    *)
(***************************************************************************)
MaxParas == 3
MaxChunkSize == 7

\* Paragraph texts as extract_paragraphs_with_positioning yields them:
\* stripped and non-empty.
ParaTexts ==
    { <<"a","a">>,
      <<"a","."," ","b">>,
      <<"a","a","a","a">>,
      <<"a","."," ","b","b","."," ","c">>,
      <<"a","a","a","a","a","a","a","a","a">> }
ParaPages == {1, 2}

\* Paragraphs come in page order (page = page_num + 1); the k-th paragraph
\* starts at y = 10 * k, so that no two paragraphs share a y_start.
ParagraphSeq(f) ==
    [k \in DOMAIN f |-> [text |-> f[k][1], page |-> f[k][2],
                         y_start |-> 10 * k, y_end |-> 10 * k]]

ChunkLocals ==
    [chunks |-> chunks, current_chunk |-> current_chunk,
     current_page |-> current_page, current_y_start |-> current_y_start,
     current_paragraphs |-> current_paragraphs]
ChunkHistory == [src |-> current_src, first |-> chunk_first]

\* The variables of the functions a specification does not run
HeadIdle ==
    /\ lines = <<>>
    /\ title = None
    /\ outline = <<>>
    /\ headings_by_page = <<>>

ChunkIdle ==
    /\ paragraphs = <<>>
    /\ min_chunk_size = 0
    /\ max_chunk_size = 0
    /\ para_idx = 0
    /\ chunks = <<>>
    /\ current_chunk = <<>>
    /\ current_page = None
    /\ current_y_start = None
    /\ current_paragraphs = <<>>
    /\ current_src = <<>>
    /\ chunk_first = <<>>

AssocIdle ==
    /\ chunk = <<>>
    /\ sem_heading = None
    /\ he_heading = None

PipeIdle ==
    /\ doc = <<>>
    /\ sections = <<>>
    /\ sem_sections = <<>>
    /\ sem_first = <<>>

CleanIdle ==
    /\ raw_text = <<>>
    /\ cleaned = None
    /\ recleaned = None

MainIdle ==
    /\ docs_dir = <<>>
    /\ top_k = 0
    /\ input_documents = <<>>
    /\ doc_idx = 0
    /\ all_sections = <<>>
    /\ stored = <<>>
    /\ hits = <<>>
    /\ final_hits = <<>>

InitChunk ==
    /\ pc = "loop"
    /\ HeadIdle
    /\ AssocIdle
    /\ PipeIdle
    /\ MainIdle
    /\ CleanIdle
    /\ \E n \in 0..MaxParas :
          \E f \in [1..n -> ParaTexts \X ParaPages] :
             /\ \A k \in 1..(n - 1) : f[k][2] <= f[k + 1][2]
             /\ paragraphs = ParagraphSeq(f)
    /\ max_chunk_size \in (MaxChunkSize - 1)..MaxChunkSize
    /\ min_chunk_size \in {2, 5}
    /\ para_idx = 1
    /\ chunks = ChunkStart.chunks
    /\ current_chunk = ChunkStart.current_chunk
    /\ current_page = ChunkStart.current_page
    /\ current_y_start = ChunkStart.current_y_start
    /\ current_paragraphs = ChunkStart.current_paragraphs
    /\ current_src = <<>>
    /\ chunk_first = <<>>

\* for para in paragraphs: ...
ChunkLoop ==
    /\ pc = "loop"
    /\ para_idx <= Len(paragraphs)
    /\ LET para == paragraphs[para_idx]
           st == ChunkStep(ChunkLocals, para, min_chunk_size, max_chunk_size)
           h == ChunkHistoryStep(ChunkLocals, ChunkHistory, para, para_idx,
                                 min_chunk_size, max_chunk_size)
       IN  /\ chunks' = st.chunks
           /\ current_chunk' = st.current_chunk
           /\ current_page' = st.current_page
           /\ current_y_start' = st.current_y_start
           /\ current_paragraphs' = st.current_paragraphs
           /\ current_src' = h.src
           /\ chunk_first' = h.first
    /\ para_idx' = para_idx + 1
    /\ UNCHANGED <<pc, paragraphs, min_chunk_size, max_chunk_size, headVars, assocVars, pipeVars, mainVars, cleanVars>>

\* the loop is over: add the last chunk and return
ChunkReturn ==
    /\ pc = "loop"
    /\ para_idx > Len(paragraphs)
    /\ chunks' = ChunkFinish(ChunkLocals)
    /\ chunk_first' = ChunkHistoryFinish(ChunkLocals, ChunkHistory)
    /\ pc' = "done"
    /\ UNCHANGED <<paragraphs, min_chunk_size, max_chunk_size, para_idx,
                   current_chunk, current_page, current_y_start,
                   current_paragraphs, current_src, headVars, assocVars, pipeVars, mainVars, cleanVars>>

NextChunk == ChunkLoop \/ ChunkReturn

SpecChunk == InitChunk /\ [][NextChunk]_vars

(***************************************************************************)
(* Claims on create_simple_chunks (SpecChunk)                              *)
(***************************************************************************)
NoOversizedParagraph ==
    \A i \in 1..Len(paragraphs) : Len(paragraphs[i].text) <= max_chunk_size

\* C1: every chunk emitted by create_simple_chunks other than the last chunk
\* of the document has len(text) <= maxSize.  Stated on the returned chunk
\* sequence, for the paragraph sequences none of whose paragraphs is itself
\* longer than maxSize.
C1_NonLastChunkWithinMax ==
    (pc = "done" /\ NoOversizedParagraph) =>
        \A k \in 1..(Len(chunks) - 1) : Len(chunks[k].text) <= max_chunk_size

\* A chunk that consists of a single oversized paragraph
SingleOversizedParagraph(c) ==
    /\ Len(c.text) > max_chunk_size
    /\ \E i \in 1..Len(paragraphs) : paragraphs[i].text = c.text

\* C2 (as claimed): every emitted chunk has len(text) >= minSize, unless it
\* is the final chunk of the document or a single oversized paragraph.
C2_ChunkAtLeastMin ==
    pc = "done" =>
        \A k \in 1..Len(chunks) :
            \/ Len(chunks[k].text) >= min_chunk_size
            \/ k = Len(chunks)
            \/ SingleOversizedParagraph(chunks[k])

\* C2 (amended): a chunk sealed inside the loop has len(text) >= minSize
\* unless it is the whole accumulator, sealed because the next paragraph
\* would have pushed it over maxSize; a chunk cut at a sentence boundary is
\* never shorter than minSize.
C2_ShortChunkIsWholeAccumulator ==
    [][(pc = "loop" /\ pc' = "loop" /\ Len(chunks') = Len(chunks) + 1) =>
          \/ Len(Last(chunks').text) >= min_chunk_size
          \/ /\ Last(chunks').text = current_chunk
             /\ Len(current_chunk) + Len(paragraphs[para_idx].text)
                    > max_chunk_size]_vars

\* C2 witness: the function has returned a short chunk that is not the last
\* one, and before it a chunk cut at a sentence boundary.
C2_Witness ==
    /\ pc = "done"
    /\ \E k \in 1..(Len(chunks) - 1) :
          /\ Len(chunks[k].text) < min_chunk_size
          /\ \E j \in 1..(k - 1) :
                /\ chunks[j].text # paragraphs[chunk_first[j]].text
                /\ Len(chunks[j].text) < Len(paragraphs[chunk_first[j]].text)

\* C3: every sealed chunk records as its page and y_start the page and
\* y_start of the first paragraph that contributed text to it.
C3_ChunkRecordsFirstParagraph ==
    \A k \in 1..Len(chunks) :
        /\ chunks[k].page = paragraphs[chunk_first[k]].page
        /\ chunks[k].y_start = paragraphs[chunk_first[k]].y_start

\* The words of a text, the sentence terminators left out
WordsOf(text) == SplitWords(SelectSeq(text, LAMBDA c : c \notin Terminators))

\* The words of the texts of a sequence of paragraphs or chunks, in order
RECURSIVE AllWords(_)
AllWords(records) ==
    IF records = <<>> THEN <<>>
    ELSE WordsOf(Head(records).text) \o AllWords(Tail(records))

\* The elements of a appear in b in the order of a
RECURSIVE IsSubsequence(_, _)
IsSubsequence(a, b) ==
    IF a = <<>> THEN TRUE
    ELSE IF b = <<>> THEN FALSE
    ELSE IF Head(a) = Head(b) THEN IsSubsequence(Tail(a), Tail(b))
    ELSE IsSubsequence(a, Tail(b))

\* C13: when create_simple_chunks returns, the words of the paragraphs, in
\* the order of the paragraphs, appear in that order in the texts of the
\* chunks: no paragraph and no sentence is lost.
C13_NoContentLost ==
    pc = "done" => IsSubsequence(AllWords(paragraphs), AllWords(chunks))

(***************************************************************************)
(* Specification SpecClassify: get_headings_by_page on the lines of a      *)
(* document: FillerLines lines of body text, then up to MaxVarLines lines  *)
(* of every text, style and page within the bounds.                        *)
(***************************************************************************)
MaxVarLines == 2

\* Line texts as extract_lines_with_fonts yields them: stripped, non-empty.
BodyText == <<"B","o","d","y"," ","t","e","x","t">>
LineTexts ==
    { <<"I","n","t","r","o">>,
      <<"N","a","m","e">>,
      <<"D","A","T","E"," ",":","x">>,
      <<"S",".","N","o">>,
      <<"1","2",".","5">>,
      <<"A","B">>,
      <<"P","a","r","t",":"," ","x">>,
      <<".",".",".",".">> }

\* <<is_bold, font_size>>; the body text is set in size 10
LineStyles == {<<TRUE, 10>>, <<FALSE, 14>>, <<FALSE, 18>>}
LinePages == {0, 1}
FillerCounts == {0, 4}

\* The k-th line of a document lies at y = 10 * k; lines come in page order.
StyledLines(fillers, f) ==
    LET n == Len(f)
        Filler(k) == [text |-> BodyText, page |-> 0, font_size |-> 10,
                      is_bold |-> FALSE, y_coord |-> 10 * k]
        Var(k) == [text |-> f[k][1], page |-> f[k][3],
                   font_size |-> f[k][2][2], is_bold |-> f[k][2][1],
                   y_coord |-> 10 * (fillers + k)]
    IN  [k \in 1..(fillers + n) |->
            IF k <= fillers THEN Filler(k) ELSE Var(k - fillers)]

InitClassify ==
    /\ pc = "start"
    /\ ChunkIdle
    /\ AssocIdle
    /\ PipeIdle
    /\ MainIdle
    /\ CleanIdle
    /\ \E c \in FillerCounts, n \in 0..MaxVarLines :
          \E f \in [1..n -> LineTexts \X LineStyles \X LinePages] :
             /\ \A k \in 1..(n - 1) : f[k][3] <= f[k + 1][3]
             /\ lines = StyledLines(c, f)
    /\ title = None
    /\ outline = <<>>
    /\ headings_by_page = <<>>

\* title, headings_by_page = get_headings_by_page(pdf_path)
GetHeadingsByPage ==
    /\ pc = "start"
    /\ title' = get_headings_by_page(lines).title
    /\ outline' = assign_heading_levels(lines).outline
    /\ headings_by_page' = get_headings_by_page(lines).headings_by_page
    /\ pc' = "done"
    /\ UNCHANGED <<lines, chunkVars, assocVars, pipeVars, mainVars, cleanVars>>

NextClassify == GetHeadingsByPage

SpecClassify == InitClassify /\ [][NextClassify]_vars

(***************************************************************************)
(* Specification SpecFontSize: get_headings_by_page on documents without   *)
(* bold lines, of up to MaxFontLines lines, for every sequence of font     *)
(* sizes.                                                                  *)
(***************************************************************************)
MaxFontLines == 6
FontSizeSet == {8, 10, 12, 14, 16, 18}

InitFontSize ==
    /\ pc = "start"
    /\ ChunkIdle
    /\ AssocIdle
    /\ PipeIdle
    /\ MainIdle
    /\ CleanIdle
    /\ \E n \in 0..MaxFontLines :
          \E f \in [1..n -> FontSizeSet] :
             lines = [k \in 1..n |->
                        [text |-> <<"I","n","t","r","o">>, page |-> 0,
                         font_size |-> f[k], is_bold |-> FALSE,
                         y_coord |-> 10 * k]]
    /\ title = None
    /\ outline = <<>>
    /\ headings_by_page = <<>>

SpecFontSize == InitFontSize /\ [][NextClassify]_vars

(***************************************************************************)
(* Claims on the heading classifier (SpecClassify, SpecFontSize)           *)
(***************************************************************************)
AnyBold == \E k \in 1..Len(lines) : lines[k].is_bold

\* The level assignment as C5 states it: the body size is set aside first,
\* and the rare sizes among the remaining ones are ranked, largest first.
ClaimedSizeToLevel(ls) ==
    LET rare == SortedDescending(RareFontSizes(ls) \ {BodyFontSize(ls)})
        n == IF Len(rare) < Len(HEADING_LEVELS) THEN Len(rare)
             ELSE Len(HEADING_LEVELS)
    IN  [z \in {rare[i] : i \in 1..n} |->
            HEADING_LEVELS[CHOOSE i \in 1..n : rare[i] = z]]

\* C5: in font-size mode the most frequent size is excluded, and the rare
\* sizes among the remaining ones, sorted descending, get Title, H1, H2, H3
\* in that order: the lines of the largest rare non-body size make the
\* title, those of the next sizes the H1, H2 and H3 entries.
C5_LevelsRankRareNonBodySizes ==
    (pc = "done" /\ ~AnyBold /\ Len(lines) > 0) =>
        LET body == BodyFontSize(lines)
            claimed == ClaimedSizeToLevel(lines)
            title_lines == TitleLines(lines, body, claimed)
        IN  /\ title = IF Len(title_lines) > 0
                       THEN Join(title_lines, <<" ">>) ELSE None
            /\ outline = FontOutline(lines, body, claimed)

\* C7: with at least one bold line the title is null and every entry is an
\* H1 entry made from a bold line; so an entry of another level or a title
\* is returned only when no line is bold.
C7_BoldModeH1FromBoldLines ==
    (pc = "done" /\ AnyBold) =>
        /\ title = None
        /\ \A i \in 1..Len(outline) :
              /\ outline[i].level = "H1"
              /\ \E k \in 1..Len(lines) :
                    /\ lines[k].is_bold
                    /\ outline[i].y_coord = lines[k].y_coord
                    /\ outline[i].page = lines[k].page
                    /\ outline[i].text = clean_heading_text(lines[k].text)

\* C7 witness: a bold line became an entry while a larger non-bold line
\* with an acceptable text did not.
C7_Witness ==
    /\ pc = "done"
    /\ Len(outline) > 0
    /\ \E k \in 1..Len(lines) :
          /\ ~lines[k].is_bold
          /\ lines[k].font_size = 18
          /\ lines[k].text = <<"I","n","t","r","o">>
    /\ \E k \in 1..Len(lines) : lines[k].is_bold

\* What C8 excludes: a cleaned length of at most 3, only digits (at least
\* one) once the '.' are removed, a reserved label in any letter case.
ReservedLabels ==
    { <<"s",".","n","o">>, <<"n","a","m","e">>, <<"a","g","e">>,
      <<"d","a","t","e">>, <<"r","s",".">>,
      <<"s","i","g","n","a","t","u","r","e">> }
Excluded(text) ==
    \/ Len(clean_heading_text(text)) <= 3
    \/ LET d == RemoveChar(text, ".")
       IN  Len(d) > 0 /\ \A i \in 1..Len(d) : d[i] \in Digits
    \/ Lower(text) \in ReservedLabels

\* The ways to read the title as cleaned line texts joined by spaces
TitleComponents ==
    {I \in SUBSET (1..Len(lines)) :
        I # {} /\ title = Join([k \in 1..Cardinality(I) |->
                                  clean_heading_text(lines[SortedSeq(I)[k]].text)],
                               <<" ">>)}

\* C8: in both modes no entry text (in the outline and in the page index)
\* and no component of the title is an excluded text.
C8_NoExcludedHeadingText ==
    pc = "done" =>
        /\ \A i \in 1..Len(outline) : ~Excluded(outline[i].text)
        /\ \A p \in DOMAIN headings_by_page :
              \A i \in 1..Len(headings_by_page[p]) :
                 ~Excluded(headings_by_page[p][i].text)
        /\ title # None =>
              \E I \in TitleComponents :
                 \A k \in I : ~Excluded(clean_heading_text(lines[k].text))

\* C8 witness: font-size mode produced a title while a line of a heading
\* size carrying a reserved label in capitals was dropped.
C8_Witness ==
    /\ pc = "done"
    /\ ~AnyBold
    /\ title # None
    /\ \E k \in 1..Len(lines) :
          /\ lines[k].text = <<"N","a","m","e">>
          /\ lines[k].font_size \in DOMAIN SizeToLevel(lines)
          /\ lines[k].font_size # BodyFontSize(lines)

(***************************************************************************)
(* Specification SpecAssoc: the two find_heading_for_chunk on every page   *)
(* index and chunk within the bounds.                                      *)
(***************************************************************************)
MaxHeadings == 3

\* Heading texts as the classifier keeps them (cleaned, longer than 3)
HeadingTexts == { <<"I","n","t","r","o">>,
                  <<"P","a","r","t"," ","t","w","o">> }
HeadingYs == {10, 50, 90}
ChunkTexts == { <<"q","q">>,
                <<"a","n"," ","i","n","t","r","o"," ","x">>,
                <<"a","p","a","r","t">> }
ChunkYs == {5, 50, 60}
ChunkPages == {1, 2}

InitAssoc ==
    /\ pc = "start"
    /\ ChunkIdle
    /\ PipeIdle
    /\ MainIdle
    /\ CleanIdle
    /\ lines = <<>>
    /\ title = None
    /\ outline = <<>>
    /\ \/ headings_by_page = <<>>
       \/ \E n \in 1..MaxHeadings :
             \E f \in [1..n -> HeadingTexts \X HeadingYs] :
                headings_by_page =
                    [p \in {1} |-> [k \in 1..n |->
                        [text |-> f[k][1], level |-> "H1", y_coord |-> f[k][2]]]]
    /\ chunk \in [text : ChunkTexts, page : ChunkPages, y_start : ChunkYs]
    /\ sem_heading = None
    /\ he_heading = None

\* heading = find_heading_for_chunk(chunk, headings_by_page)
SemanticAssociate ==
    /\ pc = "start"
    /\ sem_heading' = SC_find_heading_for_chunk(chunk, headings_by_page)
    /\ pc' = "semantic"
    /\ UNCHANGED <<chunkVars, headVars, chunk, he_heading, pipeVars, mainVars, cleanVars>>

\* heading = find_heading_for_chunk(page_num, chunk, headings_by_page)
SimpleAssociate ==
    /\ pc = "semantic"
    /\ he_heading' = HE_find_heading_for_chunk(chunk.page, chunk.text,
                                               headings_by_page)
    /\ pc' = "done"
    /\ UNCHANGED <<chunkVars, headVars, chunk, sem_heading, pipeVars, mainVars, cleanVars>>

NextAssoc == SemanticAssociate \/ SimpleAssociate

SpecAssoc == InitAssoc /\ [][NextAssoc]_vars

(***************************************************************************)
(* Claims on the associators (SpecAssoc)                                   *)
(***************************************************************************)
PageHeadings ==
    IF chunk.page \in DOMAIN headings_by_page
    THEN headings_by_page[chunk.page] ELSE <<>>

\* The content-overlap test of the sentence-aware associator: the lowered
\* heading, or one of its words, occurs in the lowered chunk text.
PassesOverlap(h) ==
    \/ Contains(Lower(chunk.text), Lower(h.text))
    \/ \E w \in WordSet(h.text) : Contains(Lower(chunk.text), w)

\* C9: on a page with two or more headings none of which passes the
\* content-overlap test, the sentence-aware associator returns the text of
\* a heading of largest y_coord among those at or above the chunk, and when
\* there is none, of a heading of smallest y_coord among those below it.
C9_ClosestAboveElseClosestBelow ==
    (pc \in {"semantic", "done"} /\ Len(PageHeadings) >= 2
        /\ \A k \in 1..Len(PageHeadings) : ~PassesOverlap(PageHeadings[k])) =>
        LET hs == PageHeadings
            above == {k \in 1..Len(hs) : hs[k].y_coord <= chunk.y_start}
            below == {k \in 1..Len(hs) : hs[k].y_coord > chunk.y_start}
        IN  IF above # {}
            THEN \E k \in above :
                    /\ \A j \in above : hs[j].y_coord <= hs[k].y_coord
                    /\ sem_heading = hs[k].text
            ELSE \E k \in below :
                    /\ \A j \in below : hs[j].y_coord >= hs[k].y_coord
                    /\ sem_heading = hs[k].text

\* C9 witness: headings at y 10, 50 and 90, a chunk at y 60 that shares no
\* word with them, and the heading at 50 (the only "Part two") returned.
C9_Witness ==
    /\ pc = "semantic"
    /\ chunk = [text |-> <<"q","q">>, page |-> 1, y_start |-> 60]
    /\ Len(PageHeadings) = 3
    /\ PageHeadings[1] = [text |-> <<"I","n","t","r","o">>, level |-> "H1",
                          y_coord |-> 10]
    /\ PageHeadings[2].y_coord = 50
    /\ PageHeadings[2].text = <<"P","a","r","t"," ","t","w","o">>
    /\ PageHeadings[3] = [text |-> <<"I","n","t","r","o">>, level |-> "H1",
                          y_coord |-> 90]
    /\ sem_heading = <<"P","a","r","t"," ","t","w","o">>

\* C10: when the page looked up has exactly one heading entry, both
\* associators return its text, whatever the chunk's text and position.
C10_SingleHeadingReturned ==
    Len(PageHeadings) = 1 =>
        /\ pc \in {"semantic", "done"} => sem_heading = PageHeadings[1].text
        /\ pc = "done" => he_heading = PageHeadings[1].text

\* C10 witness: a one-heading page, a chunk below the heading that shares
\* no word with it, and both associators have answered.
C10_Witness ==
    /\ pc = "done"
    /\ Len(PageHeadings) = 1
    /\ chunk.text = <<"q","q">>
    /\ chunk.y_start < PageHeadings[1].y_coord
    /\ sem_heading = PageHeadings[1].text
    /\ he_heading = PageHeadings[1].text


(***************************************************************************)
(* Specification SpecPipeline: the two extract_chunks_with_headings run on *)
(* one document of one or two pages and up to MaxDocLines lines.  The      *)
(* chunk sizes are scaled down with the texts.                             *)
(***************************************************************************)
MaxDocLines == 3
PipelineChunkSize == 10
PipelineMinSize == 3

\* The lines a document is made of: <<text, is_bold>>, all set in size 12.
\* "Name" is a bold line the classifier skips, " " a blank line.
DocLineKinds ==
    { << <<"T","o","p","i","c">>, TRUE >>,
      << <<"T","o","p","i","c">>, FALSE >>,
      << <<"s","e","e"," ","i","t">>, FALSE >>,
      << <<"G","o","."," ","O","n">>, FALSE >>,
      << <<"N","a","m","e">>, TRUE >>,
      << <<" ">>, FALSE >> }
DocFile == <<"a",".","p","d","f">>

\* f[k] = <<kind, page>> of the k-th line, which lies at y = 10 * k
DocOf(np, f) ==
    LET Line(k) == [text |-> f[k][1][1], font_size |-> 12,
                    is_bold |-> f[k][1][2], y_coord |-> 10 * k]
        On(p) == SortedSeq({k \in 1..Len(f) : f[k][2] = p})
    IN  [p \in 1..np |-> [j \in 1..Len(On(p)) |-> Line(On(p)[j])]]

InitPipeline ==
    /\ pc = "start"
    /\ ChunkIdle
    /\ HeadIdle
    /\ AssocIdle
    /\ MainIdle
    /\ CleanIdle
    /\ \E np \in 1..2, n \in 0..MaxDocLines :
          \E f \in [1..n -> DocLineKinds \X (1..np)] :
             /\ \A k \in 1..(n - 1) : f[k][2] <= f[k + 1][2]
             /\ doc = DocOf(np, f)
    /\ sections = <<>>
    /\ sem_sections = <<>>
    /\ sem_first = <<>>

\* heading_extractor.extract_chunks_with_headings(pdf_path, chunk_size)
SimplePipeline ==
    /\ pc = "start"
    /\ lines' = extract_lines_with_fonts(doc)
    /\ title' = get_headings_by_page(lines').title
    /\ outline' = assign_heading_levels(lines').outline
    /\ headings_by_page' = get_headings_by_page(lines').headings_by_page
    /\ sections' = HE_extract_chunks_with_headings(doc, DocFile,
                                                   PipelineChunkSize)
    /\ pc' = "simple"
    /\ UNCHANGED <<doc, sem_sections, sem_first, chunkVars, assocVars, mainVars, cleanVars>>

\* semantic_chunker.extract_chunks_with_headings(pdf_path, chunk_size)
SemanticPipeline ==
    /\ pc = "simple"
    /\ paragraphs' = extract_paragraphs_with_positioning(doc)
    /\ lines' = extract_lines_with_fonts(doc)
    /\ title' = get_headings_by_page(lines').title
    /\ outline' = assign_heading_levels(lines').outline
    /\ headings_by_page' = get_headings_by_page(lines').headings_by_page
    /\ sem_sections' = SC_extract_chunks_with_headings(doc, DocFile,
                            PipelineMinSize, PipelineChunkSize)
    /\ sem_first' = ChunkRun(ChunkStart, [src |-> <<>>, first |-> <<>>],
                             paragraphs', 1, PipelineMinSize,
                             PipelineChunkSize).first
    /\ pc' = "done"
    /\ UNCHANGED <<doc, sections, min_chunk_size, max_chunk_size, para_idx,
                   chunks, current_chunk, current_page, current_y_start,
                   current_paragraphs, current_src, chunk_first, assocVars,
                   mainVars, cleanVars>>

NextPipeline == SimplePipeline \/ SemanticPipeline

SpecPipeline == InitPipeline /\ [][NextPipeline]_vars

(***************************************************************************)
(* Claims on the pipelines (SpecPipeline)                                  *)
(***************************************************************************)
\* The page with 0-based index p has a HeadingEntry in the HeadingIndex
HasHeadingEntry(p) ==
    p \in DOMAIN headings_by_page /\ headings_by_page[p] # <<>>

\* The simple pipeline cuts its chunks page by page: the text of a section
\* comes from the page with 1-based number section.page
SimpleHeadingsOk ==
    \A k \in 1..Len(sections) :
        /\ sections[k].heading # None
        /\ sections[k].heading = <<>> => ~HasHeadingEntry(sections[k].page - 1)

\* The text of a section of the sentence-aware pipeline starts in the
\* paragraph sem_first[k], extracted from the page with 1-based number
\* paragraphs[sem_first[k]].page
SemanticHeadingsOk ==
    \A k \in 1..Len(sem_sections) :
        /\ sem_sections[k].heading # None
        /\ sem_sections[k].heading = <<>>
              => ~HasHeadingEntry(paragraphs[sem_first[k]].page - 1)

\* C4: in both pipelines the heading of every section is a string, never
\* null, and it is the empty string only if the page the text of the
\* section came from has no HeadingEntry in the HeadingIndex.
C4_HeadingEmptyOnlyWithoutEntry ==
    SimpleHeadingsOk /\ SemanticHeadingsOk


\* The document has no line of text: every line of every page is blank
ZeroLines == extract_lines_with_fonts(doc) = <<>>

\* Lines of the document are heading candidates (bold lines), and the
\* classifier has kept none of them
AllCandidatesFilteredOut ==
    /\ \E k \in 1..Len(lines) : lines[k].is_bold
    /\ outline = <<>>

\* C11: once both pipelines have run, a document with zero lines has given
\* a null title, an empty HeadingIndex, no paragraph, no chunk and no
\* section in either pipeline; a document whose heading candidates are all
\* filtered out has given a null title and an empty HeadingIndex, and each
\* of its sections has the empty heading.
C11_EmptyDocumentEmptyResults ==
    pc = "done" =>
        /\ ZeroLines =>
              /\ title = None
              /\ outline = <<>>
              /\ headings_by_page = <<>>
              /\ paragraphs = <<>>
              /\ create_simple_chunks(paragraphs, PipelineMinSize,
                                      PipelineChunkSize) = <<>>
              /\ sections = <<>>
              /\ sem_sections = <<>>
        /\ AllCandidatesFilteredOut =>
              /\ title = None
              /\ headings_by_page = <<>>
              /\ \A k \in 1..Len(sections) : sections[k].heading = <<>>
              /\ \A k \in 1..Len(sem_sections) :
                    sem_sections[k].heading = <<>>

\* Both pipelines have run on a document of one or more pages, none of
\* which has a line of text
C11_Witness ==
    /\ pc = "done"
    /\ Len(doc) >= 1
    /\ \E p \in 1..Len(doc) : doc[p] # <<>>
    /\ ZeroLines
    /\ sections = <<>>
    /\ sem_sections = <<>>

\* The non-empty paragraphs of the page with 1-based number p: the texts of
\* its lines that are not blank, trimmed
ParagraphsOfPage(p) ==
    LET kept == SelectSeq(doc[p], LAMBDA line : Strip(line.text) # <<>>)
    IN  [k \in 1..Len(kept) |-> Strip(kept[k].text)]

\* The texts of the sections of the simple pipeline recorded for page p
SectionTextsOfPage(p) ==
    LET kept == SelectSeq(sections, LAMBDA sec : sec.page = p)
    IN  [k \in 1..Len(kept) |-> kept[k].text]

\* text is made of the paragraphs a..b of page p, a single space between
IsRunOfPage(text, p, a, b) ==
    text = Join(SubSeq(ParagraphsOfPage(p), a, b), <<" ">>)

\* C14: the sections of the simple pipeline are ordered by page; each has
\* the number of a page of the document (its 0-based index plus one), a
\* text made of consecutive paragraphs of that page only, at most
\* chunk_size long when made of more than one, and the heading looked up
\* for that page; the sections of a page hold every paragraph of the page
\* once, in order.
C14_SimpleChunksPartitionPages ==
    pc \in {"simple", "done"} =>
        /\ \A k \in 1..(Len(sections) - 1) :
              sections[k].page <= sections[k + 1].page
        /\ \A k \in 1..Len(sections) :
              LET sec == sections[k]
                  n == Len(ParagraphsOfPage(sec.page))
              IN  /\ sec.page \in 1..Len(doc)
                  /\ \E a \in 1..n : \E b \in a..n :
                        IsRunOfPage(sec.text, sec.page, a, b)
                  /\ \A a \in 1..n : \A b \in (a + 1)..n :
                        IsRunOfPage(sec.text, sec.page, a, b)
                            => Len(sec.text) <= PipelineChunkSize
                  /\ sec.heading =
                        HE_find_heading_for_chunk(sec.page - 1, sec.text,
                                                  headings_by_page)
        /\ \A p \in 1..Len(doc) :
              Join(SectionTextsOfPage(p), <<" ">>)
                  = Join(ParagraphsOfPage(p), <<" ">>)

\* A two-page document: a section of the first page is made of two
\* paragraphs and is exactly chunk_size long, and the second page has a
\* section too
C14_Witness ==
    /\ pc = "simple"
    /\ Len(doc) = 2
    /\ \E k \in 1..Len(sections) :
          /\ sections[k].page = 1
          /\ Len(sections[k].text) = PipelineChunkSize
          /\ IsRunOfPage(sections[k].text, 1, 1, 2)
    /\ \E k \in 1..Len(sections) : sections[k].page = 2

(***************************************************************************)
(* main.py: chunking, storage and retrieval in main.  A file of the        *)
(* documents directory is a record of its name, whether fitz can open it   *)
(* (readable) and, if it can, the document it holds (doc).                 *)
(***************************************************************************)
\* str.endswith
EndsWith(s, suffix) ==
    /\ Len(s) >= Len(suffix)
    /\ SubSeq(s, Len(s) - Len(suffix) + 1, Len(s)) = suffix

\* fname.lower().endswith('.pdf')
IsPdf(fname) == EndsWith(Lower(fname), <<".", "p", "d", "f">>)

\* chunk_pdf(file_path, chunk_size=500)
chunk_size == 500

chunk_pdf(file) ==
    HE_extract_chunks_with_headings(file.doc, file.name, chunk_size)

\* store_sections: one point per section, its id the position of the
\* section counted from 0
store_sections(secs) ==
    [i \in 1..Len(secs) |-> [id |-> i - 1, payload |-> secs[i]]]

\* "Filter out very short chunks (less than 200 characters)"
min_hit_length == 200

FirstN(s, n) == IF Len(s) <= n THEN s ELSE SubSeq(s, 1, n)

\* filtered_hits, final_hits and the short hits added back
FinalHits(hs, k) ==
    LET filtered_hits == SelectSeq(hs, LAMBDA hit :
                             Len(hit.payload.text) >= min_hit_length)
        short_hits == SelectSeq(hs, LAMBDA hit :
                             Len(hit.payload.text) < min_hit_length)
        first_hits == FirstN(filtered_hits, k)
    IN  IF Len(first_hits) < k
        THEN first_hits \o FirstN(short_hits, k - Len(first_hits))
        ELSE first_hits

(***************************************************************************)
(* Specification SpecMain: main on a directory of up to MaxDocs files, up  *)
(* to the selection of the hits the output is written from.  The ranking   *)
(* of the vector search is left open: search returns any limit points of   *)
(* the collection in any order.                                            *)
(***************************************************************************)
MaxDocs == 2

FileStems == <<"a", "b", "c">>
FileExtensions == { <<".", "p", "d", "f">>, <<".", "P", "D", "F">>,
                    <<".", "t", "x", "t">> }
TopKs == {1, 2}

\* One page: a bold heading and a line of text
ShortDoc ==
    << << [text |-> <<"T","o","p","i","c">>, font_size |-> 12,
           is_bold |-> TRUE, y_coord |-> 10],
          [text |-> <<"s","e","e"," ","i","t">>, font_size |-> 12,
           is_bold |-> FALSE, y_coord |-> 20] >> >>

\* One page: one line of min_hit_length characters
LongDoc ==
    << << [text |-> Repeat("a", min_hit_length), font_size |-> 12,
           is_bold |-> FALSE, y_coord |-> 10] >> >>

FileContents == {ShortDoc, LongDoc}

\* f[k] = <<extension, readable, doc>> of the k-th file
Directory(f) ==
    [k \in 1..Len(f) |->
        [name |-> <<FileStems[k]>> \o f[k][1], readable |-> f[k][2],
         doc |-> f[k][3]]]

InitMain ==
    /\ pc = "list"
    /\ ChunkIdle
    /\ HeadIdle
    /\ AssocIdle
    /\ PipeIdle
    /\ CleanIdle
    /\ \E n \in 0..MaxDocs :
          \E f \in [1..n -> FileExtensions \X BOOLEAN \X FileContents] :
             docs_dir = Directory(f)
    /\ top_k \in TopKs
    /\ input_documents = <<>>
    /\ doc_idx = 0
    /\ all_sections = <<>>
    /\ stored = <<>>
    /\ hits = <<>>
    /\ final_hits = <<>>

\* "1. Get list of input documents"
ListDocuments ==
    /\ pc = "list"
    /\ input_documents' = SelectSeq(docs_dir, LAMBDA file : IsPdf(file.name))
    /\ doc_idx' = 1
    /\ pc' = "chunk"
    /\ UNCHANGED <<docs_dir, top_k, all_sections, stored, hits, final_hits,
                   chunkVars, headVars, assocVars, pipeVars, cleanVars>>

\* "2. Chunk all PDFs": all_sections.extend(chunk_pdf(fpath))
ChunkDocument ==
    /\ pc = "chunk"
    /\ doc_idx <= Len(input_documents)
    /\ input_documents[doc_idx].readable
    /\ all_sections' = all_sections \o chunk_pdf(input_documents[doc_idx])
    /\ doc_idx' = doc_idx + 1
    /\ UNCHANGED <<pc, docs_dir, top_k, input_documents, stored, hits,
                   final_hits, chunkVars, headVars, assocVars, pipeVars, cleanVars>>

\* fitz.open raises in chunk_pdf: nothing in main catches the exception,
\* and main ends with it
ChunkRaises ==
    /\ pc = "chunk"
    /\ doc_idx <= Len(input_documents)
    /\ ~input_documents[doc_idx].readable
    /\ pc' = "raised"
    /\ UNCHANGED <<mainVars, chunkVars, headVars, assocVars, pipeVars, cleanVars>>

\* "5. Store all section embeddings"
StoreSections ==
    /\ pc = "chunk"
    /\ doc_idx > Len(input_documents)
    /\ stored' = store_sections(all_sections)
    /\ pc' = "search"
    /\ UNCHANGED <<docs_dir, top_k, input_documents, doc_idx, all_sections,
                   hits, final_hits, chunkVars, headVars, assocVars, pipeVars, cleanVars>>

\* "6. Embed query": search with limit top_k * 3, then the hits kept
Search ==
    /\ pc = "search"
    /\ LET limit == top_k * 3
           m == IF Len(stored) <= limit THEN Len(stored) ELSE limit
       IN  \E order \in [1..m -> 1..Len(stored)] :
              /\ \A i, j \in 1..m : order[i] = order[j] => i = j
              /\ hits' = [i \in 1..m |-> stored[order[i]]]
    /\ final_hits' = FinalHits(hits', top_k)
    /\ pc' = "done"
    /\ UNCHANGED <<docs_dir, top_k, input_documents, doc_idx, all_sections,
                   stored, chunkVars, headVars, assocVars, pipeVars, cleanVars>>

NextMain ==
    ListDocuments \/ ChunkDocument \/ ChunkRaises \/ StoreSections \/ Search

SpecMain == InitMain /\ [][NextMain]_vars

(***************************************************************************)
(* Claims on main (SpecMain)                                               *)
(***************************************************************************)
\* The sections of file are among the payloads of the stored points
SectionsStored(file) ==
    \A k \in 1..Len(chunk_pdf(file)) :
        \E i \in 1..Len(stored) : stored[i].payload = chunk_pdf(file)[k]

\* C6: when main has ended, with or without a document whose chunking
\* failed, the sections of every PDF document that can be chunked have
\* reached storage.
C6_OtherDocumentsReachStorage ==
    pc \in {"done", "raised"} =>
        \A k \in 1..Len(docs_dir) :
            IsPdf(docs_dir[k].name) /\ docs_dir[k].readable
                => SectionsStored(docs_dir[k])


(***************************************************************************)
(* Specification SpecClean: clean_heading_text on every text of up to      *)
(* MaxTextLen characters of CleanAlphabet and on the text of ChapterLine,  *)
(* then on its own result, then the classifier on the bold line that holds *)
(* the text.                                                               *)
(***************************************************************************)
MaxTextLen == 6

CleanAlphabet == {"a", " ", ":"}
ChapterLine ==
    <<"C","h","a","p","t","e","r"," ","1",":"," ",
      "I","n","t","r","o","d","u","c","t","i","o","n">>

InitClean ==
    /\ pc = "start"
    /\ ChunkIdle
    /\ HeadIdle
    /\ AssocIdle
    /\ PipeIdle
    /\ MainIdle
    /\ \/ \E n \in 0..MaxTextLen :
             \E f \in [1..n -> CleanAlphabet] :
                raw_text = [k \in 1..n |-> f[k]]
       \/ raw_text = ChapterLine
    /\ cleaned = None
    /\ recleaned = None

\* text = clean_heading_text(line['text'])
CleanText ==
    /\ pc = "start"
    /\ cleaned' = clean_heading_text(raw_text)
    /\ pc' = "cleaned"
    /\ UNCHANGED <<raw_text, recleaned, chunkVars, headVars, assocVars,
                   pipeVars, mainVars>>

\* clean_heading_text applied to its own result
CleanAgain ==
    /\ pc = "cleaned"
    /\ recleaned' = clean_heading_text(cleaned)
    /\ pc' = "recleaned"
    /\ UNCHANGED <<raw_text, cleaned, chunkVars, headVars, assocVars,
                   pipeVars, mainVars>>

\* get_headings_by_page on a one-page document whose only line is bold and
\* holds raw_text
ClassifyLine ==
    /\ pc = "recleaned"
    /\ lines' = extract_lines_with_fonts(
                    << << [text |-> raw_text, font_size |-> 12,
                           is_bold |-> TRUE, y_coord |-> 10] >> >>)
    /\ title' = get_headings_by_page(lines').title
    /\ outline' = assign_heading_levels(lines').outline
    /\ headings_by_page' = get_headings_by_page(lines').headings_by_page
    /\ pc' = "done"
    /\ UNCHANGED <<cleanVars, chunkVars, assocVars, pipeVars, mainVars>>

NextClean == CleanText \/ CleanAgain \/ ClassifyLine

SpecClean == InitClean /\ [][NextClean]_vars

(***************************************************************************)
(* Claims on clean_heading_text (SpecClean)                                *)
(***************************************************************************)
\* t is s without its leading and trailing whitespace
IsTrimOf(t, s) ==
    /\ t = <<>> \/ (t[1] \notin Whitespace /\ t[Len(t)] \notin Whitespace)
    /\ \E i \in 0..Len(s) :
          /\ i + Len(t) <= Len(s)
          /\ t = SubSeq(s, i + 1, i + Len(t))
          /\ \A k \in 1..i : s[k] \in Whitespace
          /\ \A k \in (i + Len(t) + 1)..Len(s) : s[k] \in Whitespace

\* p is the portion of s that precedes its first colon, all of s when it
\* has no colon
IsPortionBeforeColon(p, s) ==
    /\ Len(p) <= Len(s)
    /\ p = SubSeq(s, 1, Len(p))
    /\ \A k \in 1..Len(p) : p[k] # ":"
    /\ Len(p) < Len(s) => s[Len(p) + 1] = ":"

NoColonNoMargin(t) ==
    /\ \A k \in 1..Len(t) : t[k] # ":"
    /\ IsTrimOf(t, t)

\* C12: clean_heading_text(raw_text) is the trimmed portion of raw_text
\* before its first colon ("Chapter 1" for "Chapter 1: Introduction"),
\* cleaning the result again changes nothing, and no text of an accepted
\* HeadingEntry holds a colon or starts or ends with whitespace.
C12_CleanIsTrimmedPrefix ==
    /\ pc # "start" =>
          /\ \E n \in 0..Len(raw_text) :
                /\ IsPortionBeforeColon(SubSeq(raw_text, 1, n), raw_text)
                /\ IsTrimOf(cleaned, SubSeq(raw_text, 1, n))
          /\ raw_text = ChapterLine
                => cleaned = <<"C","h","a","p","t","e","r"," ","1">>
    /\ pc \in {"recleaned", "done"} => recleaned = cleaned
    /\ pc = "done" =>
          \A k \in 1..Len(outline) : NoColonNoMargin(outline[k].text)

\* A text with whitespace before its first colon has been cleaned, cleaned
\* again and accepted as a HeadingEntry
C12_Witness ==
    /\ pc = "done"
    /\ \E k \in 2..Len(raw_text) :
          /\ raw_text[k] = ":"
          /\ raw_text[k - 1] \in Whitespace
    /\ Len(outline) = 1
    /\ outline[1].text = cleaned

====
